---------------------------- MODULE Spec2Model ----------------------------
(***************************************************************************)
(* A model of pkg/templates/templates.go: the template resolver            *)
(* (NewResolver, HasTemplate, ResolveTemplate) and its concurrent          *)
(* decryption of protected values (processEncryptedStrs, decryptWrapper).  *)
(*                                                                         *)
(* Texts are sequences of symbols.  A symbol is one character, except that *)
(* the words the code searches for as a whole ("toInt", "toBool",          *)
(* "autoindent", "indent") are one symbol each.                            *)
(***************************************************************************)
EXTENDS Integers, Sequences, FiniteSets, TLC

(***************************************************************************)
(* Constants of the package (templates.go 26-33) and the symbol classes    *)
(* of its regular expressions.                                             *)
(***************************************************************************)
defaultStartDelim == <<"{", "{">>
defaultStopDelim == <<"}", "}">>
IVSize == 16
\* "$ocm_encrypted:" shortened to its first and its last character; neither
\* is in the base64 class, as in the original.
protectedPrefix == <<"$", ":">>
\* [a-zA-Z0-9+/=], cut down to the characters the texts of the model use.
Base64Chars == {"a", "b", "="}
Spaces == {" ", "\n"}
Words == {"toInt", "toBool", "autoindent", "indent", "protect"}
Digits == {"0", "1", "2", "3", "4", "5", "6", "7", "8", "9"}
Alphabet ==
    Base64Chars \cup Spaces \cup Words \cup Digits
        \cup {"$", ":", "{", "}", "[", "]", "|", ">", "-", "'", "\"", "k", "x"}

(***************************************************************************)
(* package strings                                                         *)
(***************************************************************************)
\* strings.Index: the first position of sub in s, 0 when there is none.
Index(s, sub) ==
    LET hits == {i \in 1..(Len(s) - Len(sub) + 1) :
                    SubSeq(s, i, i + Len(sub) - 1) = sub}
    IN  IF hits = {} THEN 0 ELSE CHOOSE i \in hits : \A j \in hits : i <= j

\* strings.Contains
Contains(s, sub) == Index(s, sub) # 0

RECURSIVE ReplaceEvery(_, _, _)
\* Mutant of Replace1: strings.Replace(s, old, new, -1), every occurrence.
ReplaceEvery(s, old, new) ==
    LET i == Index(s, old)
    IN  IF i = 0 THEN s
        ELSE SubSeq(s, 1, i - 1) \o new
                 \o ReplaceEvery(SubSeq(s, i + Len(old), Len(s)), old, new)

\* strings.Replace(s, old, new, 1), old not empty.
Replace1(s, old, new) ==
    LET i == Index(s, old)
    IN  IF i = 0 THEN s
        ELSE SubSeq(s, 1, i - 1) \o new \o SubSeq(s, i + Len(old), Len(s))

RECURSIVE ReplaceAll(_, _, _)
\* strings.Replace(s, old, new, -1), old not empty.
ReplaceAll(s, old, new) ==
    LET i == Index(s, old)
    IN  IF i = 0 THEN s
        ELSE SubSeq(s, 1, i - 1) \o new
                 \o ReplaceAll(SubSeq(s, i + Len(old), Len(s)), old, new)

RECURSIVE Repeat(_, _)
\* strings.Repeat(s, count) for count >= 0; it panics for a negative count.
Repeat(s, count) == IF count <= 0 THEN <<>> ELSE s \o Repeat(s, count - 1)

RECURSIVE TrimSpace(_)
\* strings.TrimSpace, of the white space the texts of the model use.
TrimSpace(s) ==
    IF s = <<>> THEN s
    ELSE IF Head(s) \in {" ", "\n"} THEN TrimSpace(Tail(s))
    ELSE IF s[Len(s)] \in {" ", "\n"} THEN TrimSpace(SubSeq(s, 1, Len(s) - 1))
    ELSE s

(***************************************************************************)
(* package regexp, as far as the package's three expressions need it.  A   *)
(* pattern is a sequence of nodes: a symbol class with a repetition range  *)
(* (greedy or not), an optional group (?:...)?, or the opening or closing  *)
(* of a capture group.  Match is Go's leftmost-first match: the one a      *)
(* backtracking search finds first.                                        *)
(***************************************************************************)
Node(t, set, min, max, greedy, sub) ==
    [t |-> t, set |-> set, min |-> min, max |-> max, greedy |-> greedy, sub |-> sub]
One(set) == Node("cls", set, 1, 1, TRUE, <<>>)
\* A max of -1 is no limit.
Star(set) == Node("cls", set, 0, -1, TRUE, <<>>)
Plus(set) == Node("cls", set, 1, -1, TRUE, <<>>)
LazyStar(set) == Node("cls", set, 0, -1, FALSE, <<>>)
Maybe(set) == Node("cls", set, 0, 1, TRUE, <<>>)
Opt(sub) == Node("opt", {}, 0, 1, TRUE, sub)
Mark == Node("mark", {}, 0, 0, TRUE, <<>>)
\* regexp.QuoteMeta(lit): the literal text, symbol by symbol.
QuoteMeta(lit) == [i \in 1..Len(lit) |-> One({lit[i]})]
\* "." matches every symbol but the line break.
Dot == Alphabet \ {"\n"}

NoMatch == [ok |-> FALSE, end |-> 0, marks |-> <<>>]

RECURSIVE RunLength(_, _, _, _)
\* How many symbols of s from position i on are in set, max at most.
RunLength(s, i, set, max) ==
    IF max = 0 \/ i > Len(s) \/ s[i] \notin set THEN 0
    ELSE 1 + RunLength(s, i + 1, set, max - 1)

RECURSIVE Match(_, _, _, _)
RECURSIVE TryCounts(_, _, _, _, _, _, _)
\* The first match of pat in s that starts at position i; end is the
\* position after it, marks the positions of the capture groups' borders.
Match(pat, s, i, marks) ==
    IF pat = <<>> THEN [ok |-> TRUE, end |-> i, marks |-> marks]
    ELSE LET node == Head(pat)
             rest == Tail(pat)
         IN  IF node.t = "mark" THEN Match(rest, s, i, Append(marks, i))
             ELSE IF node.t = "opt"
             THEN LET taken == Match(node.sub \o rest, s, i, marks)
                  IN  IF taken.ok THEN taken ELSE Match(rest, s, i, marks)
             ELSE LET run == RunLength(s, i, node.set, node.max)
                  IN  IF run < node.min THEN NoMatch
                      ELSE IF node.greedy
                      THEN TryCounts(rest, s, i, marks, run, node.min, -1)
                      ELSE TryCounts(rest, s, i, marks, node.min, run, 1)

\* The repetition counts n, n + step, ..., last in this order of preference.
TryCounts(rest, s, i, marks, n, last, step) ==
    LET r == Match(rest, s, i + n, marks)
    IN  IF r.ok THEN r
        ELSE IF n = last THEN NoMatch
        ELSE TryCounts(rest, s, i, marks, n + step, last, step)

RECURSIVE FindAllFrom(_, _, _)
\* The successive non-overlapping matches of pat in s from position p on
\* (none of the package's expressions matches the empty text).
FindAllFrom(pat, s, p) ==
    IF p > Len(s) THEN <<>>
    ELSE LET r == Match(pat, s, p, <<>>)
         IN  IF r.ok /\ r.end > p
             THEN <<[start |-> p, end |-> r.end, marks |-> r.marks]>>
                      \o FindAllFrom(pat, s, r.end)
             ELSE FindAllFrom(pat, s, p + 1)

\* The text of capture group g of match m (0: the whole match).
Group(s, m, g) ==
    IF g = 0 THEN SubSeq(s, m.start, m.end - 1)
    ELSE SubSeq(s, m.marks[2 * g - 1], m.marks[2 * g] - 1)

\* Regexp.FindAllStringSubmatch(s, -1) for a pattern of groups capture groups:
\* per match, the whole match and then each group's text.
FindAllStringSubmatch(pat, groups, s) ==
    LET all == FindAllFrom(pat, s, 1)
    IN  [k \in 1..Len(all) |-> [g \in 1..(groups + 1) |-> Group(s, all[k], g - 1)]]

(***************************************************************************)
(* Config, NewResolver, HasTemplate                                        *)
(***************************************************************************)
\* EncryptionMode (templates.go 35-45); the type is uint8, so a Config can
\* hold a value that is none of the three.
EncryptionDisabled == 0
EncryptionEnabled == 1
DecryptionEnabled == 2

\* A byte slice, by what the code reads of it: whether it is nil, its length.
Bytes(isNil, len) == [isNil |-> isNil, len |-> len]

NoError == "nil"
ErrKubeClient == "kubeClient must be a non-nil value"
ErrAESKeyNotSet == "AESKey must be set to use this encryption mode"
ErrInvalidIV == "InitializationVector must be 128 bits"
ErrDelims == "the configurations StartDelim and StopDelim cannot be set independently"
ErrProtectNotEnabled == "the protect template function is not enabled in this mode"

\* A *TemplateResolver: nil, or the resolver holding its configuration.
NilResolver == [isNil |-> TRUE]
Resolver(cfg) == [isNil |-> FALSE, config |-> cfg]

\* Mutant of NewResolver: the key and the vector are checked in the
\* encrypting mode only.
NewResolverCheckingEncryptingOnly(kubeClientIsNil, cfg) ==
    IF kubeClientIsNil
    THEN [resolver |-> NilResolver, err |-> ErrKubeClient]
    ELSE IF cfg.EncryptionMode = EncryptionEnabled /\ cfg.AESKey.isNil
    THEN [resolver |-> NilResolver, err |-> ErrAESKeyNotSet]
    ELSE IF cfg.EncryptionMode = EncryptionEnabled
            /\ cfg.InitializationVector.len # IVSize
    THEN [resolver |-> NilResolver, err |-> ErrInvalidIV]
    ELSE IF (cfg.StartDelim # <<>> /\ cfg.StopDelim = <<>>)
            \/ (cfg.StartDelim = <<>> /\ cfg.StopDelim # <<>>)
    THEN [resolver |-> NilResolver, err |-> ErrDelims]
    ELSE IF cfg.StartDelim = <<>>
    THEN [resolver |-> Resolver([cfg EXCEPT !.StartDelim = defaultStartDelim,
                                            !.StopDelim = defaultStopDelim]),
          err |-> NoError]
    ELSE [resolver |-> Resolver(cfg), err |-> NoError]

\* NewResolver (118-152): the resolver and the error it returns.
NewResolver(kubeClientIsNil, cfg) ==
    IF kubeClientIsNil
    THEN [resolver |-> NilResolver, err |-> ErrKubeClient]
    ELSE IF cfg.EncryptionMode \in {EncryptionEnabled, DecryptionEnabled}
            /\ cfg.AESKey.isNil
    THEN [resolver |-> NilResolver, err |-> ErrAESKeyNotSet]
    ELSE IF cfg.EncryptionMode \in {EncryptionEnabled, DecryptionEnabled}
            /\ cfg.InitializationVector.len # IVSize
    THEN [resolver |-> NilResolver, err |-> ErrInvalidIV]
    ELSE IF (cfg.StartDelim # <<>> /\ cfg.StopDelim = <<>>)
            \/ (cfg.StartDelim = <<>> /\ cfg.StopDelim # <<>>)
    THEN [resolver |-> NilResolver, err |-> ErrDelims]
    ELSE IF cfg.StartDelim = <<>>
    THEN [resolver |-> Resolver([cfg EXCEPT !.StartDelim = defaultStartDelim,
                                            !.StopDelim = defaultStopDelim]),
          err |-> NoError]
    ELSE [resolver |-> Resolver(cfg), err |-> NoError]

\* Mutant of HasTemplate: the prefix is looked for whether asked or not.
HasTemplateAlwaysCheckingEncrypted(template, startDelim, checkForEncrypted) ==
    LET delim == IF startDelim = <<>> THEN defaultStartDelim ELSE startDelim
    IN  Contains(template, delim) \/ Contains(template, protectedPrefix)

\* HasTemplate (157-176)
HasTemplate(template, startDelim, checkForEncrypted) ==
    LET delim == IF startDelim = <<>> THEN defaultStartDelim ELSE startDelim
    IN  IF Contains(template, delim) THEN TRUE
        ELSE IF checkForEncrypted /\ Contains(template, protectedPrefix) THEN TRUE
        ELSE FALSE

(***************************************************************************)
(* getValidContext and the function map of ResolveTemplate                 *)
(***************************************************************************)
\* The context argument by what reflection reads of it: nil, or its kind
\* and, for a struct, the kinds of its fields.
NilContext == [kind |-> "nil", fields |-> <<>>]
Struct(fields) == [kind |-> "struct", fields |-> fields]
ErrContextKind == "the input context must be a struct with string fields, got"
ErrContextField == "the input context must be a struct with string fields"

\* getValidContext (182-204)
getValidContext(context) ==
    IF context = NilContext THEN [ctx |-> Struct(<<>>), err |-> NoError]
    ELSE IF context.kind # "struct"
    THEN [ctx |-> NilContext, err |-> ErrContextKind]
    ELSE IF \E i \in 1..Len(context.fields) : context.fields[i] # "string"
    THEN [ctx |-> NilContext, err |-> ErrContextField]
    ELSE [ctx |-> context, err |-> NoError]

\* The base function map (222-234): each name with the function it is bound to.
BaseFuncMap ==
    [name \in {"fromSecret", "fromConfigMap", "fromClusterClaim", "lookup",
               "base64enc", "base64dec", "autoindent", "indent", "atoi",
               "toInt", "toBool"} |->
        IF name \in {"fromSecret", "fromConfigMap", "fromClusterClaim", "lookup", "indent"}
        THEN "t." \o name
        ELSE IF name = "base64enc" THEN "base64encode"
        ELSE IF name = "base64dec" THEN "base64decode"
        ELSE name]

\* Mutant of ModeFuncMap: outside the encrypting mode protect is undefined.
ModeFuncMapWithoutProtect(mode) ==
    IF mode = EncryptionEnabled
    THEN ("fromSecret" :> "t.fromSecretProtected") @@ ("protect" :> "t.protect")
             @@ BaseFuncMap
    ELSE BaseFuncMap

\* The mode's overrides (236-242).
ModeFuncMap(mode) ==
    IF mode = EncryptionEnabled
    THEN ("fromSecret" :> "t.fromSecretProtected") @@ ("protect" :> "t.protect")
             @@ BaseFuncMap
    ELSE ("protect" :> "ErrProtectNotEnabled") @@ BaseFuncMap

\* delete(funcMap, funcName)
Delete(funcMap, funcName) ==
    [name \in DOMAIN funcMap \ {funcName} |-> funcMap[name]]

RECURSIVE DeleteAll(_, _)
\* for _, funcName := range DisabledFunctions { delete(funcMap, funcName) } (244-246)
DeleteAll(funcMap, names) ==
    IF names = <<>> THEN funcMap
    ELSE DeleteAll(Delete(funcMap, Head(names)), Tail(names))

\* Mutant of BuildFuncMap: the disabled names are deleted before the mode's
\* overrides are made.
BuildFuncMapDeletingFirst(cfg) ==
    IF cfg.EncryptionMode = EncryptionEnabled
    THEN ("fromSecret" :> "t.fromSecretProtected") @@ ("protect" :> "t.protect")
             @@ DeleteAll(BaseFuncMap, cfg.DisabledFunctions)
    ELSE ("protect" :> "ErrProtectNotEnabled")
             @@ DeleteAll(BaseFuncMap, cfg.DisabledFunctions)

\* The function map the template is parsed with (222-249).
BuildFuncMap(cfg) == DeleteAll(ModeFuncMap(cfg.EncryptionMode), cfg.DisabledFunctions)

(***************************************************************************)
(* The text passes of ResolveTemplate                                      *)
(***************************************************************************)
RECURSIVE Decimal(_)
\* The decimal digits of n >= 0.
Decimal(n) ==
    LET digit == CHOOSE d \in Digits : d = ToString(n % 10)
    IN  IF n < 10 THEN <<digit>> ELSE Append(Decimal(n \div 10), digit)

\* fmt.Sprintf("indent %d", n)
SprintfIndent(n) ==
    <<"indent", " ">> \o (IF n < 0 THEN <<"-">> \o Decimal(-n) ELSE Decimal(n))

\* The expression of processForDataTypes (320-324).
DataTypesRegexp(cfg) ==
    <<One({":"}), Plus(Spaces),
      Opt(<<One({"|", ">"}), Maybe({"-"}), Plus(Spaces)>>),
      Opt(<<One({"'", "|", "\""}), Star(Spaces)>>),
      Mark>>
        \o QuoteMeta(cfg.StartDelim)
        \o <<LazyStar(Dot), Plus(Spaces), One({"|"}), Plus(Spaces),
             One({"toInt", "toBool"}), Star(Spaces)>>
        \o QuoteMeta(cfg.StopDelim)
        \o <<Mark, Opt(<<Star(Spaces), One({"'", "|", "\""})>>)>>

RECURSIVE ReplaceAllWithGroup(_, _, _, _)
\* Regexp.ReplaceAllString(s, ": $1"): s from position p on, each match of
\* all replaced by ": " and its first group.
ReplaceAllWithGroup(s, all, k, p) ==
    IF k > Len(all) THEN SubSeq(s, p, Len(s))
    ELSE SubSeq(s, p, all[k].start - 1) \o <<":", " ">> \o Group(s, all[k], 1)
             \o ReplaceAllWithGroup(s, all, k + 1, all[k].end)

\* processForDataTypes (310-334)
processForDataTypes(cfg, str) ==
    ReplaceAllWithGroup(str, FindAllFrom(DataTypesRegexp(cfg), str, 1), 1, 1)

\* The expression of processForAutoIndent (339-346).
AutoIndentRegexp(cfg) ==
    <<Mark, Star({" "}), Mark, Maybe({"'", "\""}), Mark>>
        \o QuoteMeta(cfg.StartDelim)
        \o <<Star(Dot), One({"|"}), Star({" "}), One({"autoindent"}), Star({" "})>>
        \o QuoteMeta(cfg.StopDelim)
        \o <<Mark>>

RECURSIVE AutoIndentLoopIgnoringOffset(_, _, _)
\* Mutant of AutoIndentLoop: the additional indentation is not subtracted.
AutoIndentLoopIgnoringOffset(cfg, submatches, processed) ==
    IF submatches = <<>> THEN processed
    ELSE LET submatch == Head(submatches)
             numSpaces == Len(submatch[2])
             matchStr == submatch[3]
             newMatchStr == Replace1(matchStr, <<"autoindent">>, SprintfIndent(numSpaces))
         IN  AutoIndentLoopIgnoringOffset(cfg, Tail(submatches),
                                          Replace1(processed, matchStr, newMatchStr))

RECURSIVE AutoIndentLoopClamped(_, _, _)
\* Mutant of AutoIndentLoop: a negative difference is written as 0.
AutoIndentLoopClamped(cfg, submatches, processed) ==
    IF submatches = <<>> THEN processed
    ELSE LET submatch == Head(submatches)
             difference == Len(submatch[2]) - cfg.AdditionalIndentation
             numSpaces == IF difference < 0 THEN 0 ELSE difference
             matchStr == submatch[3]
             newMatchStr == Replace1(matchStr, <<"autoindent">>, SprintfIndent(numSpaces))
         IN  AutoIndentLoopClamped(cfg, Tail(submatches),
                                   Replace1(processed, matchStr, newMatchStr))

RECURSIVE AutoIndentLoop(_, _, _)
\* The loop of processForAutoIndent (354-359) over the submatches left.
AutoIndentLoop(cfg, submatches, processed) ==
    IF submatches = <<>> THEN processed
    ELSE LET submatch == Head(submatches)
             numSpaces == Len(submatch[2]) - cfg.AdditionalIndentation
             matchStr == submatch[3]
             newMatchStr == Replace1(matchStr, <<"autoindent">>, SprintfIndent(numSpaces))
         IN  AutoIndentLoop(cfg, Tail(submatches), Replace1(processed, matchStr, newMatchStr))

\* processForAutoIndent (338-364)
processForAutoIndent(cfg, str) ==
    AutoIndentLoop(cfg, FindAllStringSubmatch(AutoIndentRegexp(cfg), 2, str), str)

\* The expression of processEncryptedStrs (371).
EncryptedRegexp == QuoteMeta(protectedPrefix) \o <<Mark, Plus(Base64Chars), Mark>>

(***************************************************************************)
(* The state.  One behaviour is one NewResolver call and, on the resolver  *)
(* it returns, one ResolveTemplate call with the goroutines that call      *)
(* starts; HasTemplate is called on its own arguments.                     *)
(***************************************************************************)
VARIABLES
    in,                \* the arguments: kubeClientIsNil, config, tmplJSON, context,
                       \* and plaintexts: what t.decrypt returns for each value
    resolver, newErr,  \* what NewResolver returned
    pc,                \* where the calling goroutine is
    ctx, funcMap, templateStr,  \* locals of ResolveTemplate
    ret,               \* what ResolveTemplate returned: doc, err
    stages,            \* history: the stages ResolveTemplate has entered
    submatches, numWorkers, sent, processed, processedResults, failed,
                       \* locals of processEncryptedStrs (sent: the submatches
                       \* enqueued, failed: the error result received)
    submatchesChan, resultsChan,  \* the channels: made, cap, buf, closed
    ctxDone,           \* the context of processEncryptedStrs is cancelled
    workers,           \* the decryptWrapper goroutines: pc, submatch, result
    panicked,          \* a goroutine panicked: the process is gone
    replaced,          \* history: the matches replaced in processed, in order
    has,               \* HasTemplate's arguments and result
    calls, heap        \* the callers that share the resolver, and the maps,
                       \* channels and goroutines their calls have created

vars ==
    <<in, resolver, newErr, pc, ctx, funcMap, templateStr, ret, stages,
      submatches, numWorkers, sent, processed, processedResults, failed,
      submatchesChan, resultsChan, ctxDone, workers, panicked, replaced, has,
      calls, heap>>

callVars == <<ctx, funcMap, templateStr, ret, stages>>
passVars == <<submatches, numWorkers, sent, processed, processedResults, failed, replaced>>
chanVars == <<submatchesChan, resultsChan, ctxDone>>
sharedVars == <<calls, heap>>

\* A []byte: nil, []byte(""), or the JSON document of a YAML text.
NilBytes == [kind |-> "nil", of |-> <<>>]
EmptyBytes == [kind |-> "empty", of |-> <<>>]
JSONOf(yaml) == [kind |-> "json", of |-> yaml]
\* jsonToYAML (479-499) and yamlToJSON (502-513), where they succeed.
jsonToYAML(j) == j.of
yamlToJSON(y) == JSONOf(y)
\* What tmpl.Execute writes for a parsed text and a context (289).
Executed(text, context) == <<"executed", text, context>>

NilChan == [made |-> FALSE, cap |-> 0, buf |-> <<>>, closed |-> FALSE]
\* Mutant of MakeChan: make(chan T), no buffer.
MakeChanUnbuffered(n) == [made |-> TRUE, cap |-> 0, buf |-> <<>>, closed |-> FALSE]
\* make(chan T, n)
MakeChan(n) == [made |-> TRUE, cap |-> n, buf |-> <<>>, closed |-> FALSE]

NoResult == [match |-> <<>>, plaintext |-> <<>>, err |-> NoError]
NoRet == [doc |-> NilBytes, err |-> NoError]

\* The goroutines that call ResolveTemplate on the one resolver, and the
\* calls each of them makes, one after the other.
MaxCallers == 2
MaxCalls == 2

\* A caller outside ResolveTemplate.  Inside, its locals refer to objects of
\* the heap by their index, 0 for none.
IdleCall ==
    [pc |-> "idle", made |-> 0, funcMap |-> 0, next |-> 1,
     submatchesChan |-> 0, resultsChan |-> 0, numWorkers |-> 0, spawned |-> 0]
NoCalls == [c \in 1..MaxCallers |-> IdleCall]

\* The state in which nothing has been called yet, for given arguments.
Start(args, hasArgs) ==
    /\ calls = NoCalls
    /\ heap = <<>>
    /\ in = args
    /\ has = hasArgs
    /\ resolver = NilResolver
    /\ newErr = NoError
    /\ pc = "NewResolver"
    /\ ctx = NilContext
    /\ funcMap = << >>
    /\ templateStr = <<>>
    /\ ret = NoRet
    /\ stages = <<>>
    /\ submatches = <<>>
    /\ numWorkers = 0
    /\ sent = 0
    /\ processed = <<>>
    /\ processedResults = 0
    /\ failed = NoResult
    /\ submatchesChan = NilChan
    /\ resultsChan = NilChan
    /\ ctxDone = FALSE
    /\ workers = <<>>
    /\ panicked = FALSE
    /\ replaced = <<>>

(***************************************************************************)
(* NewResolver and the sequential stages of ResolveTemplate.  What the     *)
(* libraries decide (whether the JSON converts, the template parses and    *)
(* executes) is an input of the stage.                                     *)
(***************************************************************************)
ErrToYAML == "failed to convert the policy template to YAML"
ErrParse == "failed to parse the template JSON string"
ErrExecute == "failed to resolve the template"
ErrToJSON == "failed to convert the resolved template back to YAML"
ErrDecryption == "decryption failed"

Running == ~panicked

\* ResolveTemplate returns doc and err.
Return(doc, err) ==
    /\ ret' = [doc |-> doc, err |-> err]
    /\ pc' = "done"

\* NewResolver (118-152), called with the arguments.
NewResolverCall ==
    /\ Running /\ pc = "NewResolver"
    /\ LET r == NewResolver(in.kubeClientIsNil, in.config)
       IN  /\ resolver' = r.resolver
           /\ newErr' = r.err
           /\ pc' = IF r.err = NoError THEN "ResolveTemplate" ELSE "failed"
    /\ UNCHANGED <<sharedVars, in, has, callVars, passVars, chanVars, workers, panicked>>

\* Mutant of ValidateContext: the error of getValidContext is dropped.
ValidateContextDroppingError ==
    /\ Running /\ pc = "ResolveTemplate"
    /\ stages' = Append(stages, "validate")
    /\ ctx' = getValidContext(in.context).ctx
    /\ pc' = "funcMap"
    /\ UNCHANGED <<sharedVars, in, has, resolver, newErr, funcMap, templateStr, ret,
                   passVars, chanVars, workers, panicked>>

\* ResolveTemplate 216-219: the context is validated.
ValidateContext ==
    /\ Running /\ pc = "ResolveTemplate"
    /\ stages' = Append(stages, "validate")
    /\ LET v == getValidContext(in.context)
       IN  IF v.err # NoError
           THEN Return(EmptyBytes, v.err) /\ UNCHANGED ctx
           ELSE ctx' = v.ctx /\ pc' = "funcMap" /\ UNCHANGED ret
    /\ UNCHANGED <<sharedVars, in, has, resolver, newErr, funcMap, templateStr, passVars,
                   chanVars, workers, panicked>>

\* ResolveTemplate 222-249: the function map is built.
BuildFunctions ==
    /\ Running /\ pc = "funcMap"
    /\ funcMap' = BuildFuncMap(resolver.config)
    /\ pc' = "jsonToYAML"
    /\ UNCHANGED <<sharedVars, in, has, resolver, newErr, ctx, templateStr, ret, stages,
                   passVars, chanVars, workers, panicked>>

\* Mutant of ConvertToYAML: the decrypt pass is entered in every mode.
ConvertToYAMLAlwaysDecrypting ==
    /\ Running /\ pc = "jsonToYAML"
    /\ stages' = Append(stages, "toYAML")
    /\ \E converts \in BOOLEAN :
          IF ~converts
          THEN Return(EmptyBytes, ErrToYAML) /\ UNCHANGED templateStr
          ELSE /\ templateStr' = jsonToYAML(in.tmplJSON)
               /\ pc' = "processEncryptedStrs"
               /\ UNCHANGED ret
    /\ UNCHANGED <<sharedVars, in, has, resolver, newErr, ctx, funcMap, passVars, chanVars,
                   workers, panicked>>

\* ResolveTemplate 252-265: jsonToYAML (479-499), then the decrypt pass in
\* the decrypting mode only.
ConvertToYAML ==
    /\ Running /\ pc = "jsonToYAML"
    /\ stages' = Append(stages, "toYAML")
    /\ \E converts \in BOOLEAN :
          IF ~converts
          THEN Return(EmptyBytes, ErrToYAML) /\ UNCHANGED templateStr
          ELSE /\ templateStr' = jsonToYAML(in.tmplJSON)
               /\ pc' = IF resolver.config.EncryptionMode = DecryptionEnabled
                        THEN "processEncryptedStrs" ELSE "dataTypes"
               /\ UNCHANGED ret
    /\ UNCHANGED <<sharedVars, in, has, resolver, newErr, ctx, funcMap, passVars, chanVars,
                   workers, panicked>>

\* ResolveTemplate 267-270
CoercionPass ==
    /\ Running /\ pc = "dataTypes"
    /\ IF Contains(templateStr, <<"toInt">>) \/ Contains(templateStr, <<"toBool">>)
       THEN /\ templateStr' = processForDataTypes(resolver.config, templateStr)
            /\ stages' = Append(stages, "coercion")
       ELSE UNCHANGED <<templateStr, stages>>
    /\ pc' = "autoIndent"
    /\ UNCHANGED <<sharedVars, in, has, resolver, newErr, ctx, funcMap, ret, passVars,
                   chanVars, workers, panicked>>

\* ResolveTemplate 272-275
AutoIndentPass ==
    /\ Running /\ pc = "autoIndent"
    /\ IF Contains(templateStr, <<"autoindent">>)
       THEN /\ templateStr' = processForAutoIndent(resolver.config, templateStr)
            /\ stages' = Append(stages, "autoindent")
       ELSE UNCHANGED <<templateStr, stages>>
    /\ pc' = "Parse"
    /\ UNCHANGED <<sharedVars, in, has, resolver, newErr, ctx, funcMap, ret, passVars,
                   chanVars, workers, panicked>>

\* The count indent passes to strings.Repeat (516).
RepeatCount(cfg, spaces) == spaces + cfg.AdditionalIndentation

\* Mutant of indent: the additional indentation is not added.
indentWithoutOffset(cfg, spaces, v) ==
    LET count == spaces
        pad == Repeat(<<" ">>, count)
        npad == <<"\n">> \o pad \o ReplaceAll(v, <<"\n">>, <<"\n">> \o pad)
    IN  IF count < 0 THEN [panics |-> TRUE, str |-> <<>>]
        ELSE [panics |-> FALSE, str |-> TrimSpace(npad)]

\* indent (515-520): what it returns, or that strings.Repeat panics.
indent(cfg, spaces, v) ==
    LET count == RepeatCount(cfg, spaces)
        pad == Repeat(<<" ">>, count)
        npad == <<"\n">> \o pad \o ReplaceAll(v, <<"\n">>, <<"\n">> \o pad)
    IN  IF count < 0 THEN [panics |-> TRUE, str |-> <<>>]
        ELSE [panics |-> FALSE, str |-> TrimSpace(npad)]

RECURSIVE ParseDigits(_, _, _)
\* The number the digits of text from position i on stand for, after acc.
ParseDigits(text, i, acc) ==
    IF i > Len(text) \/ text[i] \notin Digits THEN acc
    ELSE ParseDigits(text, i + 1,
                     10 * acc + (CHOOSE d \in 0..9 : ToString(d) = text[i]))

\* The integer the template reads at position i of text.
ParseInt(text, i) ==
    IF i <= Len(text) /\ text[i] = "-" THEN -ParseDigits(text, i + 1, 0)
    ELSE ParseDigits(text, i, 0)

\* The first arguments of the indent invocations of a text, as tmpl.Execute
\* passes them to indent (289).
IndentArguments(text) ==
    {ParseInt(text, i + 2) :
        i \in {j \in 1..(Len(text) - 2) :
                  /\ text[j] = "indent" /\ text[j + 1] = " "
                  /\ text[j + 2] \in Digits \cup {"-"}}}

\* The function names a text uses.
FunctionsUsed(text) == {w \in Words : Contains(text, <<w>>)}

\* ResolveTemplate 277-285: Parse fails on a function that is not in the
\* map, and on whatever else the library rejects.
Parse ==
    /\ Running /\ pc = "Parse"
    /\ stages' = Append(stages, "parse")
    /\ \E parses \in BOOLEAN :
          IF ~parses \/ ~(FunctionsUsed(templateStr) \subseteq DOMAIN funcMap)
          THEN Return(EmptyBytes, ErrParse)
          ELSE pc' = "Execute" /\ UNCHANGED ret
    /\ UNCHANGED <<sharedVars, in, has, resolver, newErr, ctx, funcMap, templateStr,
                   passVars, chanVars, workers, panicked>>

\* What a call of the function bound under a name of the map returns as its
\* error, where the package decides it (241, 524-526).
CallError(impl) ==
    IF impl = "ErrProtectNotEnabled" THEN ErrProtectNotEnabled
    ELSE IF impl = "autoindent"
    THEN "an unexpeceted error occurred where autoindent could not be processed"
    ELSE NoError

\* ResolveTemplate 287-295: Execute fails when a function it calls fails
\* or panics.
Execute ==
    /\ Running /\ pc = "Execute"
    /\ stages' = Append(stages, "execute")
    /\ \E executes \in BOOLEAN :
          IF ~executes
             \/ \E f \in FunctionsUsed(templateStr) : CallError(funcMap[f]) # NoError
             \/ \E n \in IndentArguments(templateStr) :
                   indent(resolver.config, n, <<"x">>).panics
          THEN Return(EmptyBytes, ErrExecute)
          ELSE pc' = "yamlToJSON" /\ UNCHANGED ret
    /\ UNCHANGED <<sharedVars, in, has, resolver, newErr, ctx, funcMap, templateStr,
                   passVars, chanVars, workers, panicked>>

\* ResolveTemplate 297-306: yamlToJSON (502-513) of the resolved text.
ConvertToJSON ==
    /\ Running /\ pc = "yamlToJSON"
    /\ stages' = Append(stages, "toJSON")
    /\ \E converts \in BOOLEAN :
          IF converts THEN Return(yamlToJSON(Executed(templateStr, ctx)), NoError)
          ELSE Return(EmptyBytes, ErrToJSON)
    /\ UNCHANGED <<sharedVars, in, has, resolver, newErr, ctx, funcMap, templateStr,
                   passVars, chanVars, workers, panicked>>

(***************************************************************************)
(* processEncryptedStrs: the calling goroutine                             *)
(***************************************************************************)
\* Mutant of NumWorkers: the number of submatches does not cap the number.
NumWorkersUncapped(concurrency, n) ==
    IF concurrency <= 1 THEN 1 ELSE concurrency

\* The number of goroutines (379-388); concurrency is a uint8.
NumWorkers(concurrency, n) ==
    IF concurrency <= 1 THEN 1
    ELSE IF n > concurrency THEN concurrency
    ELSE n

\* t.decrypt(encryptedValue) (459): the plaintext and the error.
decrypt(encryptedValue) == in.plaintexts[encryptedValue]

NewWorker == [pc |-> "range", submatch |-> <<>>, result |-> NoResult]

\* processEncryptedStrs 369-402: the occurrences are found; with none the
\* text is returned as it is; else the channels are made and the goroutines
\* started (none of them can act before the first submatch is sent).
FindEncrypted ==
    /\ Running /\ pc = "processEncryptedStrs"
    /\ stages' = Append(stages, "decrypt")
    /\ LET found == FindAllStringSubmatch(EncryptedRegexp, 1, templateStr)
           n == NumWorkers(resolver.config.DecryptionConcurrency, Len(found))
       IN  /\ submatches' = found
           /\ IF Len(found) = 0
              THEN /\ pc' = "dataTypes"
                   /\ UNCHANGED <<numWorkers, submatchesChan, resultsChan, workers>>
              ELSE /\ numWorkers' = n
                   /\ submatchesChan' = MakeChan(Len(found))
                   /\ resultsChan' = MakeChan(Len(found))
                   /\ workers' = [w \in 1..n |-> NewWorker]
                   /\ pc' = "send"
    /\ UNCHANGED <<sharedVars, in, has, resolver, newErr, ctx, funcMap, templateStr, ret,
                   sent, processed, processedResults, failed, replaced,
                   ctxDone, panicked>>

\* processEncryptedStrs 405-410: the next submatch is sent; the send waits
\* while the buffer is full.
SendSubmatch ==
    /\ Running /\ pc = "send"
    /\ Len(submatchesChan.buf) < submatchesChan.cap
    /\ submatchesChan' =
           [submatchesChan EXCEPT !.buf = Append(@, submatches[sent + 1])]
    /\ sent' = sent + 1
    /\ IF sent + 1 = Len(submatches)
       THEN pc' = "range" /\ processed' = templateStr /\ processedResults' = 0
       ELSE UNCHANGED <<pc, processed, processedResults>>
    /\ UNCHANGED <<sharedVars, in, has, resolver, newErr, callVars, submatches, numWorkers,
                   failed, replaced, resultsChan, ctxDone, workers, panicked>>

\* Mutant of ReceiveResult: the channels are closed after the first
\* plaintext received.
ReceiveResultClosingEarly ==
    /\ Running /\ pc = "range"
    /\ resultsChan.buf # <<>>
    /\ LET result == Head(resultsChan.buf)
       IN  /\ resultsChan' = [resultsChan EXCEPT !.buf = Tail(@)]
           /\ IF result.err # NoError
              THEN /\ failed' = result
                   /\ pc' = "cancel"
                   /\ UNCHANGED <<processed, processedResults, replaced>>
              ELSE /\ processed' = Replace1(processed, result.match, result.plaintext)
                   /\ processedResults' = processedResults + 1
                   /\ replaced' = Append(replaced, result.match)
                   /\ pc' = "closeSubmatches"
                   /\ UNCHANGED failed
    /\ UNCHANGED <<sharedVars, in, has, resolver, newErr, callVars, submatches, numWorkers,
                   sent, submatchesChan, ctxDone, workers, panicked>>

\* processEncryptedStrs 412-425: a result is received; an error ends the
\* loop, a plaintext replaces the first occurrence of its match.
ReceiveResult ==
    /\ Running /\ pc = "range"
    /\ resultsChan.buf # <<>>
    /\ LET result == Head(resultsChan.buf)
       IN  /\ resultsChan' = [resultsChan EXCEPT !.buf = Tail(@)]
           /\ IF result.err # NoError
              THEN /\ failed' = result
                   /\ pc' = "cancel"
                   /\ UNCHANGED <<processed, processedResults, replaced>>
              ELSE /\ processed' = Replace1(processed, result.match, result.plaintext)
                   /\ processedResults' = processedResults + 1
                   /\ replaced' = Append(replaced, result.match)
                   /\ pc' = IF processedResults + 1 = Len(submatches)
                            THEN "closeSubmatches" ELSE "range"
                   /\ UNCHANGED failed
    /\ UNCHANGED <<sharedVars, in, has, resolver, newErr, callVars, submatches, numWorkers,
                   sent, submatchesChan, ctxDone, workers, panicked>>

\* processEncryptedStrs 416: cancel()
Cancel ==
    /\ Running /\ pc = "cancel"
    /\ ctxDone' = TRUE
    /\ pc' = "closeSubmatchesOnError"
    /\ UNCHANGED <<sharedVars, in, has, resolver, newErr, callVars, passVars,
                   submatchesChan, resultsChan, workers, panicked>>

\* close(ch): closing a closed channel panics.
Close(ch) == [ch EXCEPT !.closed = TRUE]

\* processEncryptedStrs 417 and 429: close(submatchesChan)
CloseSubmatchesChan ==
    /\ Running /\ pc \in {"closeSubmatchesOnError", "closeSubmatches"}
    /\ IF submatchesChan.closed
       THEN panicked' = TRUE /\ UNCHANGED <<submatchesChan, pc>>
       ELSE /\ submatchesChan' = Close(submatchesChan)
            /\ pc' = IF pc = "closeSubmatches" THEN "closeResults"
                     ELSE "closeResultsOnError"
            /\ UNCHANGED panicked
    /\ UNCHANGED <<sharedVars, in, has, resolver, newErr, callVars, passVars, resultsChan,
                   ctxDone, workers>>

\* processEncryptedStrs 418 and 430: close(resultsChan)
CloseResultsChan ==
    /\ Running /\ pc \in {"closeResultsOnError", "closeResults"}
    /\ IF resultsChan.closed
       THEN panicked' = TRUE /\ UNCHANGED <<resultsChan, pc>>
       ELSE /\ resultsChan' = Close(resultsChan)
            /\ pc' = IF pc = "closeResults" THEN "range" ELSE "returnError"
            /\ UNCHANGED panicked
    /\ UNCHANGED <<sharedVars, in, has, resolver, newErr, callVars, passVars, submatchesChan,
                   ctxDone, workers>>

\* Mutant of ReturnError: ResolveTemplate drops the error and goes on with
\* the text as far as it was processed.
ReturnErrorDropped ==
    /\ Running /\ pc = "returnError"
    /\ ctxDone' = TRUE
    /\ templateStr' = processed
    /\ pc' = "dataTypes"
    /\ UNCHANGED <<sharedVars, in, has, resolver, newErr, ctx, funcMap, ret, stages,
                   passVars, submatchesChan, resultsChan, workers, panicked>>

\* processEncryptedStrs 419-421 with its deferred cancel (397), and
\* ResolveTemplate 261-264: the error is returned, with no text.
ReturnError ==
    /\ Running /\ pc = "returnError"
    /\ ctxDone' = TRUE
    /\ templateStr' = <<>>
    /\ Return(NilBytes, ErrDecryption)
    /\ UNCHANGED <<sharedVars, in, has, resolver, newErr, ctx, funcMap, stages, passVars,
                   submatchesChan, resultsChan, workers, panicked>>

\* processEncryptedStrs 412 and 434-436 with its deferred cancel (397): the
\* results channel is closed and empty, the loop ends and the processed
\* text is returned.
ReturnProcessed ==
    /\ Running /\ pc = "range"
    /\ resultsChan.buf = <<>> /\ resultsChan.closed
    /\ ctxDone' = TRUE
    /\ templateStr' = processed
    /\ pc' = "dataTypes"
    /\ UNCHANGED <<sharedVars, in, has, resolver, newErr, ctx, funcMap, ret, stages,
                   passVars, submatchesChan, resultsChan, workers, panicked>>

(***************************************************************************)
(* decryptWrapper: one goroutine w                                         *)
(***************************************************************************)
\* decryptWrapper 454: the next submatch is received, or the loop ends on
\* the closed and drained channel.
WorkerReceive(w) ==
    /\ Running /\ workers[w].pc = "range"
    /\ IF submatchesChan.buf # <<>>
       THEN /\ workers' = [workers EXCEPT ![w].pc = "decrypt",
                                          ![w].submatch = Head(submatchesChan.buf)]
            /\ submatchesChan' = [submatchesChan EXCEPT !.buf = Tail(@)]
       ELSE /\ submatchesChan.closed
            /\ workers' = [workers EXCEPT ![w].pc = "exit"]
            /\ UNCHANGED submatchesChan
    /\ UNCHANGED <<sharedVars, in, has, resolver, newErr, pc, callVars, passVars,
                   resultsChan, ctxDone, panicked>>

\* decryptWrapper 455-464: the value is decrypted and the result built.
WorkerDecrypt(w) ==
    /\ Running /\ workers[w].pc = "decrypt"
    /\ LET match == workers[w].submatch[1]
           d == decrypt(workers[w].submatch[2])
           result == IF d.err # NoError
                     THEN [match |-> match, plaintext |-> <<>>, err |-> d.err]
                     ELSE [match |-> match, plaintext |-> d.plaintext, err |-> NoError]
       IN  workers' = [workers EXCEPT ![w].pc = "select", ![w].result = result]
    /\ UNCHANGED <<sharedVars, in, has, resolver, newErr, pc, callVars, passVars, chanVars,
                   panicked>>

\* decryptWrapper 466-473: the select.  Of the cases that can proceed one
\* is chosen: the receive from ctx.Done() once the context is cancelled,
\* the send when the buffer has room or the channel is closed (and then the
\* send panics).
WorkerSelect(w) ==
    /\ Running /\ workers[w].pc = "select"
    /\ \/ /\ ctxDone
          /\ workers' = [workers EXCEPT ![w].pc = "exit"]
          /\ UNCHANGED <<resultsChan, panicked>>
       \/ /\ resultsChan.closed \/ Len(resultsChan.buf) < resultsChan.cap
          /\ IF resultsChan.closed
             THEN panicked' = TRUE /\ UNCHANGED <<resultsChan, workers>>
             ELSE /\ resultsChan' =
                         [resultsChan EXCEPT !.buf = Append(@, workers[w].result)]
                  /\ workers' = [workers EXCEPT ![w].pc = "range"]
                  /\ UNCHANGED panicked
    /\ UNCHANGED <<sharedVars, in, has, resolver, newErr, pc, callVars, passVars,
                   submatchesChan, ctxDone>>

(***************************************************************************)
(* HasTemplate, called on its own                                          *)
(***************************************************************************)
HasArgs(template, startDelim, checkForEncrypted) ==
    [template |-> template, startDelim |-> startDelim,
     checkForEncrypted |-> checkForEncrypted, called |-> FALSE, result |-> FALSE]

HasTemplateCall ==
    /\ ~has.called
    /\ has' = [has EXCEPT !.called = TRUE,
                          !.result = HasTemplate(has.template, has.startDelim,
                                                 has.checkForEncrypted)]
    /\ UNCHANGED <<sharedVars, in, resolver, newErr, pc, callVars, passVars, chanVars,
                   workers, panicked>>

(***************************************************************************)
(* ResolveTemplate called by several goroutines on one resolver, seen at   *)
(* the objects a call creates: its function map (222-246), its channels    *)
(* (390-391) and its goroutines (400-402).  Every object records the call  *)
(* that created it: the caller and the number of its call.                 *)
(***************************************************************************)
oneCallVars ==
    <<in, has, resolver, newErr, pc, callVars, passVars, chanVars, workers, panicked>>

\* A composite literal, a make or a go statement: a new object.
New(object) == Append(heap, object)

\* ResolveTemplate 213-219 is entered on the resolver NewResolver returned;
\* an invalid context returns at once.
EnterResolveTemplate(c) ==
    /\ pc = "ResolveTemplate"
    /\ calls[c].pc = "idle" /\ calls[c].made < MaxCalls
    /\ \E valid \in BOOLEAN :
          calls' = [calls EXCEPT ![c] =
                       [IdleCall EXCEPT !.made = calls[c].made + 1,
                                        !.pc = IF valid THEN "funcMap" ELSE "idle"]]
    /\ UNCHANGED <<heap, oneCallVars>>

\* Mutant of NewFuncMap: the map is one map of the package, made by the
\* first call and used by all.
NewFuncMapOfPackage(c) ==
    /\ calls[c].pc = "funcMap"
    /\ IF \E id \in DOMAIN heap : heap[id].kind = "funcMap"
       THEN /\ calls' = [calls EXCEPT ![c].funcMap =
                             CHOOSE id \in DOMAIN heap : heap[id].kind = "funcMap",
                                      ![c].pc = "delete"]
            /\ UNCHANGED heap
       ELSE /\ heap' = New([kind |-> "funcMap", by |-> <<c, calls[c].made>>,
                            names |-> DOMAIN ModeFuncMap(resolver.config.EncryptionMode),
                            args |-> <<>>])
            /\ calls' = [calls EXCEPT ![c].funcMap = Len(heap) + 1, ![c].pc = "delete"]
    /\ UNCHANGED oneCallVars

\* ResolveTemplate 222-242: funcMap is a new map, with the names of the mode.
NewFuncMap(c) ==
    /\ calls[c].pc = "funcMap"
    /\ heap' = New([kind |-> "funcMap", by |-> <<c, calls[c].made>>,
                    names |-> DOMAIN ModeFuncMap(resolver.config.EncryptionMode),
                    args |-> <<>>])
    /\ calls' = [calls EXCEPT ![c].funcMap = Len(heap) + 1, ![c].pc = "delete"]
    /\ UNCHANGED oneCallVars

\* ResolveTemplate 244-246, one turn of the loop: the next disabled name is
\* deleted from the map funcMap refers to; after the last, 248-265.
DeleteDisabled(c) ==
    /\ calls[c].pc = "delete"
    /\ LET disabled == resolver.config.DisabledFunctions
           i == calls[c].next
       IN  IF i <= Len(disabled)
           THEN /\ heap' = [heap EXCEPT ![calls[c].funcMap].names = @ \ {disabled[i]}]
                /\ calls' = [calls EXCEPT ![c].next = i + 1]
           ELSE /\ calls' = [calls EXCEPT ![c].pc =
                                 IF resolver.config.EncryptionMode = DecryptionEnabled
                                 THEN "processEncryptedStrs" ELSE "rest"]
                /\ UNCHANGED heap
    /\ UNCHANGED oneCallVars

\* processEncryptedStrs 369-391: with no occurrence it returns; else the two
\* channels are made, for numWorkers goroutines.
MakeChans(c) ==
    /\ calls[c].pc = "processEncryptedStrs"
    /\ \E n \in 0..2 :
          IF n = 0
          THEN calls' = [calls EXCEPT ![c].pc = "rest"] /\ UNCHANGED heap
          ELSE /\ heap' = heap \o
                       <<[kind |-> "chan", by |-> <<c, calls[c].made>>, names |-> {}, args |-> <<>>],
                         [kind |-> "chan", by |-> <<c, calls[c].made>>, names |-> {}, args |-> <<>>]>>
               /\ calls' = [calls EXCEPT ![c].submatchesChan = Len(heap) + 1,
                                         ![c].resultsChan = Len(heap) + 2,
                                         ![c].numWorkers = n,
                                         ![c].pc = "go"]
    /\ UNCHANGED oneCallVars

\* processEncryptedStrs 400-402, one turn of the loop: a goroutine is started
\* on the channels of the call; after the last, the rest of the call.
Go(c) ==
    /\ calls[c].pc = "go"
    /\ heap' = New([kind |-> "goroutine", by |-> <<c, calls[c].made>>, names |-> {},
                    args |-> <<calls[c].submatchesChan, calls[c].resultsChan>>])
    /\ calls' = [calls EXCEPT ![c].spawned = @ + 1,
                              ![c].pc = IF calls[c].spawned + 1 = calls[c].numWorkers
                                        THEN "rest" ELSE "go"]
    /\ UNCHANGED oneCallVars

\* The call returns, a document or an error (261-306); its goroutines may
\* outlive it.
ReturnFromResolveTemplate(c) ==
    /\ calls[c].pc = "rest"
    /\ calls' = [calls EXCEPT ![c].pc = "idle"]
    /\ UNCHANGED <<heap, oneCallVars>>

(***************************************************************************)
(* The arguments the specifications draw from                              *)
(***************************************************************************)
\* The most occurrences of protected values in a text of SpecDecrypt.
MaxOccurrences == 2
\* The highest DecryptionConcurrency of SpecDecrypt.
MaxConcurrency == 3
\* The longest template of SpecHasTemplate.
MaxTemplateLen == 3

Config(indentation, key, concurrency, disabled, mode, iv, startDelim, stopDelim) ==
    [AdditionalIndentation |-> indentation, AESKey |-> key,
     DecryptionConcurrency |-> concurrency, DisabledFunctions |-> disabled,
     EncryptionMode |-> mode, InitializationVector |-> iv,
     StartDelim |-> startDelim, StopDelim |-> stopDelim]

Args(kubeClientIsNil, cfg, tmplJSON, context, plaintexts) ==
    [kubeClientIsNil |-> kubeClientIsNil, config |-> cfg, tmplJSON |-> tmplJSON,
     context |-> context, plaintexts |-> plaintexts]

CustomStart == <<"[", "[">>
CustomStop == <<"]", "]">>
NilSlice == Bytes(TRUE, 0)
AESKey256 == Bytes(FALSE, 32)

\* The encrypted values of the texts, and what decrypting one can return:
\* an error, or a plaintext, which is shorter than the base64 of its
\* AES-CBC encryption (77-82).
Values == {<<"a", "b">>, <<"b", "a">>}
ErrDecrypt == "decrypt failed"
Outcomes(value) ==
    {[plaintext |-> <<>>, err |-> ErrDecrypt]}
        \cup {[plaintext |-> p, err |-> NoError] : p \in {q \in {<<"x">>} : Len(q) < Len(value)}}

RECURSIVE EncryptedText(_)
\* The text with one protected value per element of values, in this order.
EncryptedText(values) ==
    IF values = <<>> THEN <<"k", ":">>
    ELSE EncryptedText(SubSeq(values, 1, Len(values) - 1))
             \o <<" ">> \o protectedPrefix \o values[Len(values)]

\* The tables of what decrypt returns for the values of a text.
Plaintexts(values) ==
    LET used == {values[i] : i \in DOMAIN values}
    IN  {t \in [used -> UNION {Outcomes(v) : v \in used}] :
            \A v \in used : t[v] \in Outcomes(v)}

PlainText == <<"k", ":", " ", "x">>
ToIntText ==
    <<"k", ":", " ", "\"", "{", "{", " ", "x", " ", "|", " ", "toInt", " ", "}", "}", "\"">>
AutoIndentText ==
    <<"k", ":", "\n", " ", " ", "{", "{", " ", "x", " ", "|", " ", "autoindent", " ", "}", "}">>
ProtectText ==
    <<"k", ":", " ", "{", "{", " ", "x", " ", "|", " ", "protect", " ", "}", "}">>

Contexts ==
    {NilContext, Struct(<<>>), Struct(<<"string">>), Struct(<<"string", "int">>),
     [kind |-> "map", fields |-> <<>>]}

DisabledLists == {<<>>, <<"protect">>, <<"fromSecret", "toInt">>, <<"protect", "sprig">>}

\* Spec: resolvers of every mode, called on a few texts.
SpecArgs ==
    LET configs ==
            {Config(indentation, key, concurrency, disabled, mode, Bytes(FALSE, IVSize), delims[1], delims[2]) :
                indentation \in {0, 2}, key \in {NilSlice, AESKey256}, concurrency \in {0, 2},
                disabled \in DisabledLists,
                mode \in {EncryptionDisabled, EncryptionEnabled, DecryptionEnabled},
                delims \in {<<<<>>, <<>>>>, <<CustomStart, CustomStop>>}}
        plain == {PlainText, ToIntText, AutoIndentText, ProtectText}
        encrypted == {<<v1>> : v1 \in Values} \cup {<<v1, v2>> : v1, v2 \in Values}
    IN  {Args(FALSE, cfg, JSONOf(text), context, <<>>) :
            cfg \in configs, text \in plain, context \in Contexts}
        \cup UNION {{Args(FALSE, cfg, JSONOf(EncryptedText(values)), NilContext, t) :
                        cfg \in configs, t \in Plaintexts(values)} : values \in encrypted}

\* SpecDecrypt: decrypting resolvers of every concurrency, called on texts of
\* up to MaxOccurrences protected values.
DecryptArgs ==
    LET configs ==
            {Config(0, AESKey256, concurrency, <<>>, DecryptionEnabled,
                    Bytes(FALSE, IVSize), <<>>, <<>>) :
                concurrency \in 0..MaxConcurrency}
        encrypted == UNION {[1..n -> Values] : n \in 0..MaxOccurrences}
    IN  UNION {{Args(FALSE, cfg, JSONOf(EncryptedText(values)), NilContext, t) :
                   cfg \in configs, t \in Plaintexts(values)} : values \in encrypted}

\* SpecNew: every configuration.
NewArgs ==
    {Args(kubeClientIsNil,
          Config(0, key, 0, <<>>, mode, iv, startDelim, stopDelim),
          JSONOf(PlainText), NilContext, <<>>) :
        kubeClientIsNil \in BOOLEAN,
        key \in {NilSlice, Bytes(FALSE, 0), Bytes(FALSE, 16), AESKey256},
        mode \in {EncryptionDisabled, EncryptionEnabled, DecryptionEnabled, 3},
        iv \in {NilSlice, Bytes(FALSE, 0), Bytes(FALSE, 15), Bytes(FALSE, IVSize), Bytes(FALSE, 17)},
        startDelim \in {<<>>, CustomStart}, stopDelim \in {<<>>, CustomStop}}

RECURSIVE SeqsUpTo(_, _)
\* The sequences over set of length n at most.
SeqsUpTo(set, n) ==
    IF n = 0 THEN {<<>>}
    ELSE LET shorter == SeqsUpTo(set, n - 1)
         IN  shorter \cup {Append(q, c) : q \in shorter, c \in set}

\* SpecHasTemplate: every short template over the characters of the two
\* delimiters and the prefix.
HasTemplateArgs ==
    {HasArgs(template, startDelim, checkForEncrypted) :
        template \in SeqsUpTo({"{", "[", "$", ":"}, MaxTemplateLen),
        startDelim \in {<<>>, CustomStart, <<"{">>},
        checkForEncrypted \in BOOLEAN}

NoHas == HasArgs(<<>>, <<>>, FALSE)

\* The most spaces before an autoindent invocation, and the highest
\* AdditionalIndentation, of SpecAutoIndent.
MaxSpaces == 8
MaxOffset == 2

\* A line of a block scalar: s spaces, then between quote marks, or none,
\* an expression that pipes into call.
InvocationLine(s, quote, d1, d2, call) ==
    <<"\n">> \o Repeat(<<" ">>, s) \o quote
        \o d1 \o <<" ", "x", " ", "|", " ">> \o call \o <<" ">> \o d2 \o quote

\* The YAML text of a block scalar of that line, lines times.
InvocationText(s, quote, d1, d2, lines, call) ==
    <<"k", ":", " ", "|">> \o Repeat(InvocationLine(s, quote, d1, d2, call), lines)

Quotes == {<<>>, <<"'">>, <<"\"">>}

\* SpecAutoIndent: resolvers of every additional indentation and of both
\* delimiter pairs, called on texts whose autoindent invocations come
\* after 0..MaxSpaces spaces.
AutoIndentArgs ==
    {Args(FALSE,
          Config(o, NilSlice, 0, <<>>, EncryptionDisabled, NilSlice, delims[1], delims[2]),
          JSONOf(InvocationText(s, quote,
                                IF delims[1] = <<>> THEN defaultStartDelim ELSE delims[1],
                                IF delims[2] = <<>> THEN defaultStopDelim ELSE delims[2],
                                lines, <<"autoindent">>)),
          NilContext, <<>>) :
        o \in 0..MaxOffset, s \in 0..MaxSpaces, quote \in Quotes, lines \in 1..2,
        delims \in {<<<<>>, <<>>>>, <<CustomStart, CustomStop>>}}

(***************************************************************************)
(* The specifications                                                      *)
(***************************************************************************)
Init == \E args \in SpecArgs : Start(args, NoHas)

Next ==
    \/ NewResolverCall
    \/ ValidateContext
    \/ BuildFunctions
    \/ ConvertToYAML
    \/ FindEncrypted
    \/ SendSubmatch
    \/ ReceiveResult
    \/ Cancel
    \/ CloseSubmatchesChan
    \/ CloseResultsChan
    \/ ReturnError
    \/ ReturnProcessed
    \/ \E w \in DOMAIN workers : WorkerReceive(w)
    \/ \E w \in DOMAIN workers : WorkerDecrypt(w)
    \/ \E w \in DOMAIN workers : WorkerSelect(w)
    \/ CoercionPass
    \/ AutoIndentPass
    \/ Parse
    \/ Execute
    \/ ConvertToJSON

Spec == Init /\ [][Next]_vars

InitDecrypt == \E args \in DecryptArgs : Start(args, NoHas)
SpecDecrypt == InitDecrypt /\ [][Next]_vars

InitNew == \E args \in NewArgs : Start(args, NoHas)
SpecNew == InitNew /\ [][NewResolverCall]_vars

InitHasTemplate ==
    \E h \in HasTemplateArgs :
        Start(Args(FALSE, Config(0, NilSlice, 0, <<>>, EncryptionDisabled, NilSlice, <<>>, <<>>),
                   JSONOf(PlainText), NilContext, <<>>), h)
SpecHasTemplate == InitHasTemplate /\ [][HasTemplateCall]_vars

\* ResolveTemplate outside the decrypting mode: no goroutine is started.
NextSequential ==
    \/ NewResolverCall
    \/ ValidateContext
    \/ BuildFunctions
    \/ ConvertToYAML
    \/ CoercionPass
    \/ AutoIndentPass
    \/ Parse
    \/ Execute
    \/ ConvertToJSON

\* SpecCalls: resolvers of every mode, with and without disabled functions.
CallsArgs ==
    {Args(FALSE,
          Config(0, AESKey256, 2, how[1], mode, Bytes(FALSE, IVSize), how[2], how[3]),
          JSONOf(PlainText), NilContext, <<>>) :
        how \in {<< <<>>, <<>>, <<>> >>, << <<"protect">>, CustomStart, CustomStop >>},
        mode \in {EncryptionDisabled, EncryptionEnabled, DecryptionEnabled}}

\* The most occurrences of protected values in a text of SpecPool.
MaxQueued == 3

\* SpecPool: decrypting resolvers of every concurrency, called on texts of
\* 1..MaxQueued protected values: some times one value, then some times the
\* other.
PoolArgs ==
    LET configs ==
            {Config(0, AESKey256, concurrency, <<>>, DecryptionEnabled,
                    Bytes(FALSE, IVSize), <<>>, <<>>) :
                concurrency \in 0..MaxConcurrency}
        encrypted ==
            UNION {{[k \in 1..n |-> IF k <= j THEN <<"a", "b">> ELSE <<"b", "a">>] :
                       j \in 0..n} : n \in 1..MaxQueued}
    IN  UNION {{Args(FALSE, cfg, JSONOf(EncryptedText(values)), NilContext, t) :
                   cfg \in configs, t \in Plaintexts(values)} : values \in encrypted}

\* SpecPrefix: decrypting resolvers called on texts of two protected values
\* of which one begins with the other.
PrefixValues == {<<"a", "a">>, <<"a", "a", "b">>}
PrefixArgs ==
    LET configs ==
            {Config(0, AESKey256, concurrency, <<>>, DecryptionEnabled,
                    Bytes(FALSE, IVSize), <<>>, <<>>) :
                concurrency \in 0..MaxConcurrency}
        encrypted == [1..2 -> PrefixValues]
    IN  UNION {{Args(FALSE, cfg, JSONOf(EncryptedText(values)), NilContext, t) :
                   cfg \in configs, t \in Plaintexts(values)} : values \in encrypted}

NextCalls ==
    \/ NewResolverCall
    \/ \E c \in 1..MaxCallers : EnterResolveTemplate(c)
    \/ \E c \in 1..MaxCallers : NewFuncMap(c)
    \/ \E c \in 1..MaxCallers : DeleteDisabled(c)
    \/ \E c \in 1..MaxCallers : MakeChans(c)
    \/ \E c \in 1..MaxCallers : Go(c)
    \/ \E c \in 1..MaxCallers : ReturnFromResolveTemplate(c)

InitCalls == \E args \in CallsArgs : Start(args, NoHas)
SpecCalls == InitCalls /\ [][NextCalls]_vars

InitPool == \E args \in PoolArgs : Start(args, NoHas)
SpecPool == InitPool /\ [][Next]_vars

InitPrefix == \E args \in PrefixArgs : Start(args, NoHas)
SpecPrefix == InitPrefix /\ [][Next]_vars

\* The steps of the calling goroutine inside processEncryptedStrs, once the
\* goroutines are started, and the steps of the goroutine w.
CallerInPass ==
    \/ SendSubmatch \/ ReceiveResult \/ Cancel
    \/ CloseSubmatchesChan \/ CloseResultsChan \/ ReturnError \/ ReturnProcessed
Worker(w) ==
    /\ w \in DOMAIN workers
    /\ WorkerReceive(w) \/ WorkerDecrypt(w) \/ WorkerSelect(w)

\* The scheduler lets every goroutine that can take a step take one, and
\* every call of decrypt returns.
Fairness ==
    /\ WF_vars(CallerInPass)
    /\ \A w \in 1..MaxConcurrency : WF_vars(Worker(w))
SpecDecryptFair == InitDecrypt /\ [][Next]_vars /\ Fairness

InitAutoIndent == \E args \in AutoIndentArgs : Start(args, NoHas)
SpecAutoIndent == InitAutoIndent /\ [][NextSequential]_vars

(***************************************************************************)
(* What the claims speak of                                                *)
(***************************************************************************)
\* The protected values of the text ResolveTemplate is called on, in the
\* order of the text.
Occurrences == FindAllStringSubmatch(EncryptedRegexp, 1, jsonToYAML(in.tmplJSON))
OccurrenceCount == Len(Occurrences)
Matches == [k \in 1..OccurrenceCount |-> Occurrences[k][1]]

\* The positions at which sub occurs in s.
Positions(s, sub) ==
    {i \in 1..Len(s) :
        /\ i + Len(sub) - 1 <= Len(s)
        /\ \A j \in 1..Len(sub) : s[i + j - 1] = sub[j]}

RECURSIVE Substituted(_)
\* The text of the first k occurrences with each value replaced in place by
\* its plaintext.
Substituted(k) ==
    IF k = 0 THEN <<"k", ":">>
    ELSE Substituted(k - 1) \o <<" ">> \o in.plaintexts[Occurrences[k][2]].plaintext

\* Every occurrence is of the same string, and its decryption succeeds.
SameStringSucceeds ==
    /\ OccurrenceCount >= 1
    /\ \A k \in 1..OccurrenceCount : Matches[k] = Matches[1]
    /\ in.plaintexts[Occurrences[1][2]].err = NoError

\* The decryption of some occurrence fails.
SomeDecryptionFails ==
    \E k \in 1..OccurrenceCount : in.plaintexts[Occurrences[k][2]].err # NoError

\* The stages after the decrypt pass.
LaterStages == {"coercion", "autoindent", "parse", "execute", "toJSON"}
StagesEntered == {stages[i] : i \in DOMAIN stages}
AfterDecryptPass == pc \in {"dataTypes", "autoIndent", "Parse", "Execute", "yamlToJSON"}
InReceiveLoop == pc \in {"range", "closeSubmatches", "closeResults"}

\* C1: for a text of N >= 1 occurrences of one protected string whose
\* decryption succeeds, under every concurrency limit and interleaving: no
\* error is ever met, after k results k occurrences are replaced and N - k
\* are left, and the pass ends with all N replaced in place by the plaintext
\* and no occurrence of the string left.
C1_SameStringAllReplaced ==
    SameStringSucceeds =>
        /\ ~panicked /\ failed = NoResult /\ ret.err # ErrDecryption
        /\ InReceiveLoop =>
              /\ processedResults <= OccurrenceCount
              /\ Cardinality(Positions(processed, Matches[1]))
                    = OccurrenceCount - processedResults
        /\ (AfterDecryptPass \/ (pc = "done" /\ "decrypt" \in StagesEntered)) =>
              /\ processedResults = OccurrenceCount
              /\ templateStr = Substituted(OccurrenceCount)
              /\ Positions(templateStr, Matches[1]) = {}

\* C1's case: two occurrences of one string, more than one goroutine, the
\* pass over and both replaced.
C1_Witness ==
    /\ SameStringSucceeds /\ OccurrenceCount = 2 /\ numWorkers = 2
    /\ AfterDecryptPass /\ processedResults = 2

\* C2: when the decryption of an occurrence fails, no interleaving yields a
\* resolved text: the stages after the decrypt pass are never entered, and
\* a call that entered the pass returns the decryption error, no document
\* and no text, whatever it had replaced before.
C2_FailureReturnsNoText ==
    SomeDecryptionFails =>
        /\ ret.doc.kind # "json"
        /\ StagesEntered \cap LaterStages = {}
        /\ ~AfterDecryptPass
        /\ (pc = "done" /\ "decrypt" \in StagesEntered) =>
              /\ ret = [doc |-> NilBytes, err |-> ErrDecryption]
              /\ templateStr = <<>>
              /\ failed.err # NoError

\* C2's case: the call has returned the error after a replacement was made.
C2_Witness ==
    /\ SomeDecryptionFails /\ pc = "done" /\ ret.err = ErrDecryption
    /\ processedResults >= 1 /\ processed # jsonToYAML(in.tmplJSON)

\* C3, as claimed: no goroutine ever sends on the closed results channel
\* (the send panics).
C3_NoSendOnClosedChannel == ~panicked

\* The results that exist so far: received, buffered, or about to be sent.
KnownResults ==
    processedResults + Len(resultsChan.buf)
        + Cardinality({w \in DOMAIN workers : workers[w].pc = "select"})

\* C4, as claimed: no occurrence is replaced before the plaintexts of all
\* occurrences are known, and the k-th replacement is of the k-th occurrence
\* of the text.
C4_ReplacedInTextOrderOnceAllKnown ==
    (OccurrenceCount >= 1 /\ ~SomeDecryptionFails) =>
        /\ Len(replaced) >= 1 => KnownResults = OccurrenceCount
        /\ Len(replaced) <= OccurrenceCount
        /\ replaced = SubSeq(Matches, 1, Len(replaced))

NewResolverReturned == pc # "NewResolver"
EncryptionModes == {EncryptionEnabled, DecryptionEnabled}
OneDelimiterSet == (in.config.StartDelim = <<>>) # (in.config.StopDelim = <<>>)

\* C5, as claimed: the missing-key error for the encrypting mode without a
\* key, the invalid-IV error for every initialization vector that is not
\* of 16 bytes, an error when one delimiter alone is set; no resolver then.
C5_ConstructionFails ==
    (NewResolverReturned /\ ~in.kubeClientIsNil) =>
        /\ (in.config.EncryptionMode = EncryptionEnabled /\ in.config.AESKey.isNil)
              => (newErr = ErrAESKeyNotSet /\ resolver = NilResolver)
        /\ in.config.InitializationVector.len # 16
              => (newErr = ErrInvalidIV /\ resolver = NilResolver)
        /\ OneDelimiterSet => (newErr # NoError /\ resolver = NilResolver)

\* C5, amended: with a client given, NewResolver fails with the missing-key
\* error when the mode is Encrypting and no key is set, with the invalid-IV
\* error when the mode is Encrypting or Decrypting, a key is set and the
\* initialization vector is not of 16 bytes, and with an error when one
\* delimiter alone is set; in each case it returns no resolver.
C5_ConstructionFailsInEncryptionModes ==
    (NewResolverReturned /\ ~in.kubeClientIsNil) =>
        /\ (in.config.EncryptionMode = EncryptionEnabled /\ in.config.AESKey.isNil)
              => (newErr = ErrAESKeyNotSet /\ resolver = NilResolver)
        /\ (in.config.EncryptionMode \in EncryptionModes /\ ~in.config.AESKey.isNil
                /\ in.config.InitializationVector.len # 16)
              => (newErr = ErrInvalidIV /\ resolver = NilResolver)
        /\ OneDelimiterSet => (newErr # NoError /\ resolver = NilResolver)

\* C5's case: the decrypting mode with a key and a vector of 15 bytes.
C5_Witness ==
    /\ NewResolverReturned /\ newErr = ErrInvalidIV /\ resolver = NilResolver
    /\ in.config.EncryptionMode = DecryptionEnabled
    /\ in.config.InitializationVector.len = 15

\* C6, as claimed: a resolver NewResolver returns has, in the encrypting and
\* the decrypting mode, a key that is not empty and an initialization
\* vector of 16 bytes, and two delimiters, neither empty: the defaults when
\* none was given, else the two given.
C6_ConfigurationInvariant ==
    (NewResolverReturned /\ resolver # NilResolver) =>
        /\ newErr = NoError
        /\ resolver.config.EncryptionMode \in EncryptionModes =>
              /\ ~resolver.config.AESKey.isNil /\ resolver.config.AESKey.len > 0
              /\ resolver.config.InitializationVector.len = 16
        /\ resolver.config.StartDelim # <<>> /\ resolver.config.StopDelim # <<>>
        /\ IF in.config.StartDelim = <<>> /\ in.config.StopDelim = <<>>
           THEN /\ resolver.config.StartDelim = <<"{", "{">>
                /\ resolver.config.StopDelim = <<"}", "}">>
           ELSE /\ resolver.config.StartDelim = in.config.StartDelim
                /\ resolver.config.StopDelim = in.config.StopDelim

FuncMapBuilt == pc = "jsonToYAML" \/ "toYAML" \in StagesEntered
Disabled == {resolver.config.DisabledFunctions[i] : i \in DOMAIN resolver.config.DisabledFunctions}

C8_DisabledFunctionsRemoved ==
    FuncMapBuilt =>
        DOMAIN funcMap =
            {"fromSecret", "fromConfigMap", "fromClusterClaim", "lookup",
             "base64enc", "base64dec", "autoindent", "indent", "atoi", "toInt",
             "toBool", "protect"} \ Disabled

\* C8's case: protect and an overridden fromSecret are disabled, and the
\* template has been parsed.
C8_Witness ==
    /\ FuncMapBuilt /\ "parse" \in StagesEntered
    /\ resolver.config.EncryptionMode = EncryptionEnabled
    /\ Disabled \cap {"protect", "fromSecret"} # {}

\* The stages in their order.
StageOrder ==
    <<"validate", "toYAML", "decrypt", "coercion", "autoindent", "parse",
      "execute", "toJSON">>
StageIndex(stage) == CHOOSE i \in DOMAIN StageOrder : StageOrder[i] = stage
ContextIsValid ==
    \/ in.context.kind = "nil"
    \/ /\ in.context.kind = "struct"
       /\ \A i \in DOMAIN in.context.fields : in.context.fields[i] = "string"

\* C9: the stages are entered in the fixed order, each at most once, the
\* decrypt pass in the decrypting mode only; a call that returns without an
\* error has entered validate, toYAML, parse, execute and toJSON (and
\* decrypt in the decrypting mode) and returns the document; a call that
\* returns an error returns no document and has entered no stage after the
\* one that failed; a call with an invalid context enters no stage but the
\* validation, and no channel is made for it.
C9_StagesInOrder ==
    /\ \A i, j \in DOMAIN stages :
          i < j => StageIndex(stages[i]) < StageIndex(stages[j])
    /\ "decrypt" \in StagesEntered =>
          resolver.config.EncryptionMode = DecryptionEnabled
    /\ (pc = "done" /\ ret.err = NoError) =>
          /\ ret.doc.kind = "json"
          /\ {"validate", "toYAML", "parse", "execute", "toJSON"} \subseteq StagesEntered
          /\ stages[Len(stages)] = "toJSON"
          /\ resolver.config.EncryptionMode = DecryptionEnabled
                => "decrypt" \in StagesEntered
    /\ (pc = "done" /\ ret.err # NoError) =>
          /\ ret.doc \in {NilBytes, EmptyBytes}
          /\ stages[Len(stages)] =
                (CASE ret.err \in {ErrContextKind, ErrContextField} -> "validate"
                   [] ret.err = ErrToYAML -> "toYAML"
                   [] ret.err = ErrDecryption -> "decrypt"
                   [] ret.err = ErrParse -> "parse"
                   [] ret.err = ErrExecute -> "execute"
                   [] ret.err = ErrToJSON -> "toJSON")
    /\ pc # "done" => ret = NoRet
    /\ ~ContextIsValid =>
          /\ StagesEntered \subseteq {"validate"}
          /\ templateStr = <<>> /\ ~submatchesChan.made /\ workers = <<>>
          /\ pc \in {"NewResolver", "failed", "ResolveTemplate", "done"}

\* C9's case: a struct with a field that is no string has been refused.
C9_Witness ==
    /\ pc = "done" /\ ret.err = ErrContextField /\ stages = <<"validate">>
    /\ in.context.kind = "struct"

HasDelim == IF has.startDelim = <<>> THEN <<"{", "{">> ELSE has.startDelim

\* C10: HasTemplate returns true exactly when the template contains the
\* start delimiter in force, or the check for protected values is asked for
\* and the template contains the prefix; and the call changes nothing else.
C10_HasTemplate ==
    /\ [](has.called =>
            (has.result <=>
                \/ Positions(has.template, HasDelim) # {}
                \/ has.checkForEncrypted /\ Positions(has.template, <<"$", ":">>) # {}))
    /\ [][UNCHANGED <<sharedVars, in, resolver, newErr, pc, callVars, passVars, chanVars,
                      workers, panicked>>
            /\ has'.template = has.template /\ has'.startDelim = has.startDelim
            /\ has'.checkForEncrypted = has.checkForEncrypted]_vars

\* C10's case: no delimiter in the template, the prefix in it, the check
\* asked for, and true returned.
C10_Witness ==
    /\ has.called /\ has.result /\ has.checkForEncrypted
    /\ Positions(has.template, HasDelim) = {}
    /\ Len(has.template) = 3

\* The auto-indent pass has run.
AutoIndentDone == "autoindent" \in StagesEntered
\* "indent N" as the template language reads it.
IndentBy(n) == <<"indent", " ">> \o (IF n < 0 THEN <<"-">> ELSE <<>>) \o Decimal(IF n < 0 THEN -n ELSE n)
\* The text the call was made on is the block scalar whose invocations come
\* after s spaces, between the quote marks, on so many lines.
CalledOn(s, quote, lines) ==
    jsonToYAML(in.tmplJSON) =
        InvocationText(s, quote, resolver.config.StartDelim,
                       resolver.config.StopDelim, lines, <<"autoindent">>)

\* C11: an autoindent invocation that comes after S spaces on its line is
\* rewritten by the auto-indent pass, under the additional indentation O,
\* to the invocation of indent with S - O, and nothing else of the text is
\* changed; for every S in 0..MaxSpaces (0, 1, 2 and 8 among them) and
\* every O in 0..MaxOffset (0 and 2 among them).
C11_AutoIndentBySpacesLessOffset ==
    \A s \in 0..MaxSpaces, quote \in Quotes, lines \in 1..2 :
        (AutoIndentDone /\ CalledOn(s, quote, lines)) =>
            templateStr =
                InvocationText(s, quote, resolver.config.StartDelim,
                               resolver.config.StopDelim, lines,
                               IndentBy(s - resolver.config.AdditionalIndentation))

\* C11's case: 8 spaces under the additional indentation 2, on two lines.
C11_Witness ==
    /\ AutoIndentDone /\ CalledOn(8, <<>>, 2)
    /\ resolver.config.AdditionalIndentation = 2
    /\ Contains(templateStr, <<"indent", " ", "6", " ">>)

\* The pass wrote a negative number.
WroteNegative == Contains(templateStr, <<"indent", " ", "-">>)

\* C12, as claimed: the number the auto-indent pass writes is never
\* negative, also when the additional indentation exceeds the spaces.
C12_WrittenIndentNonNegative == AutoIndentDone => ~WroteNegative

\* C12, amended: the number the auto-indent pass writes is negative exactly
\* when the additional indentation O exceeds the measured spaces S, and is
\* non-negative whenever O <= S.
C12_WrittenIndentNegativeIffOffsetExceeds ==
    \A s \in 0..MaxSpaces, quote \in Quotes, lines \in 1..2 :
        (AutoIndentDone /\ CalledOn(s, quote, lines)) =>
            (WroteNegative <=> resolver.config.AdditionalIndentation > s)

\* C12's case: one space under the additional indentation 2.
C12_Witness ==
    /\ AutoIndentDone /\ CalledOn(1, <<>>, 1)
    /\ resolver.config.AdditionalIndentation = 2
    /\ WroteNegative

\* The objects a call (caller c, its n-th call) created, and those it can
\* reach: through its locals and through the goroutines it started.
CreatedBy(c, n) == {id \in DOMAIN heap : heap[id].by = <<c, n>>}
LocalsOf(c) == {calls[c].funcMap, calls[c].submatchesChan, calls[c].resultsChan} \ {0}
InCall(c) == calls[c].pc # "idle"

\* C13: on a resolver that several goroutines call, again and again, the
\* configuration stays the one NewResolver fixed; every local of a call in
\* progress refers to an object this very call created, every goroutine got
\* the two channels of the call that started it, no map, channel or
\* goroutine is referred to by two calls, and the map of a call holds the
\* names of the mode less the disabled names deleted so far by this call.
C13_ConfigurationFixedNothingShared ==
    /\ pc # "NewResolver" =>
          resolver = NewResolver(in.kubeClientIsNil, in.config).resolver
    /\ \A c \in 1..MaxCallers :
          InCall(c) => LocalsOf(c) \subseteq CreatedBy(c, calls[c].made)
    /\ \A c, d \in 1..MaxCallers :
          (c # d /\ InCall(c) /\ InCall(d)) => LocalsOf(c) \cap LocalsOf(d) = {}
    /\ \A id \in DOMAIN heap :
          heap[id].kind = "goroutine" =>
              /\ Len(heap[id].args) = 2 /\ heap[id].args[1] # heap[id].args[2]
              /\ \A k \in 1..2 :
                    /\ heap[heap[id].args[k]].kind = "chan"
                    /\ heap[heap[id].args[k]].by = heap[id].by
    /\ \A c \in 1..MaxCallers :
          (InCall(c) /\ calls[c].funcMap # 0) =>
              heap[calls[c].funcMap].names =
                  DOMAIN ModeFuncMap(resolver.config.EncryptionMode)
                      \ {resolver.config.DisabledFunctions[i] : i \in 1..(calls[c].next - 1)}

\* C13's case: two callers are inside ResolveTemplate at once, each in its
\* second call, in the decrypting mode with goroutines of four calls.
C13_Witness ==
    /\ \A c \in 1..2 : InCall(c) /\ calls[c].made = 2 /\ calls[c].resultsChan # 0
    /\ Cardinality({heap[id].by : id \in {i \in DOMAIN heap : heap[i].kind = "goroutine"}}) = 4
    /\ resolver.config.DisabledFunctions # <<>>

\* processEncryptedStrs has been entered, is in progress past its early
\* return, has returned; every goroutine it started has returned.
PassEntered == "decrypt" \in StagesEntered
InPass ==
    pc \in {"send", "range", "cancel", "closeSubmatchesOnError", "closeResultsOnError",
            "returnError", "closeSubmatches", "closeResults"}
PassReturned == PassEntered /\ ~InPass
AllWorkersExited == \A w \in DOMAIN workers : workers[w].pc = "exit"

\* C14, as claimed: under fair scheduling, with every decrypt returning,
\* every call of processEncryptedStrs returns and every goroutine it started
\* returns, whether the decryptions succeed or one fails.
C14_PassTerminatesWorkersExit ==
    InPass ~> (PassReturned /\ AllWorkersExited)

\* C15, as claimed: once the first error has cancelled the context, no
\* goroutine receives another submatch from the work queue.
C15_NoDequeueAfterCancel ==
    [][(ctxDone /\ failed # NoResult) =>
          \A w \in DOMAIN workers :
              ~(workers[w].pc = "range" /\ workers'[w].pc = "decrypt")]_vars

Max(a, b) == IF a >= b THEN a ELSE b
Min(a, b) == IF a <= b THEN a ELSE b
DecryptsInProgress == Cardinality({w \in DOMAIN workers : workers[w].pc = "decrypt"})

\* C16: for N >= 1 occurrences under the concurrency limit L the pass starts
\* max(1, min(L, N)) goroutines, never more than that many decrypt calls are
\* in progress, and with L = 0 or L = 1 never more than one.
C16_WorkerCount ==
    (PassEntered /\ OccurrenceCount >= 1) =>
        LET L == resolver.config.DecryptionConcurrency
        IN  /\ numWorkers = Max(1, Min(L, OccurrenceCount))
            /\ Len(workers) = numWorkers
            /\ DecryptsInProgress <= Max(1, Min(L, OccurrenceCount))
            /\ L <= 1 => DecryptsInProgress <= 1

\* C16's case: three occurrences under the limit 2, two decrypt calls in
\* progress.
C16_Witness ==
    /\ OccurrenceCount = 3 /\ in.config.DecryptionConcurrency = 2
    /\ numWorkers = 2 /\ DecryptsInProgress = 2

\* C17: in a pass over N occurrences both channels have the capacity N and
\* never hold more; the caller's send of a submatch finds room in the work
\* queue, and while the results channel is open, the send of a goroutine
\* finds room in it.
C17_BuffersNeverFull ==
    (PassEntered /\ OccurrenceCount >= 1) =>
        /\ submatchesChan.cap = OccurrenceCount /\ resultsChan.cap = OccurrenceCount
        /\ Len(submatchesChan.buf) <= OccurrenceCount
        /\ Len(resultsChan.buf) <= OccurrenceCount
        /\ pc = "send" => Len(submatchesChan.buf) < submatchesChan.cap
        /\ \A w \in DOMAIN workers :
              (workers[w].pc = "select" /\ ~resultsChan.closed) =>
                  Len(resultsChan.buf) < resultsChan.cap

\* C17's case: three occurrences, two results wait in the channel and a
\* goroutine is about to send the third.
C17_Witness ==
    /\ OccurrenceCount = 3 /\ Len(resultsChan.buf) = 2 /\ ~resultsChan.closed
    /\ \E w \in DOMAIN workers : workers[w].pc = "select"

\* The text of the call is set: the conversion to YAML succeeded.
TextIsSet == pc \in {"dataTypes", "autoIndent", "Parse", "Execute", "yamlToJSON"}

\* C18: goroutines and channels exist only in the decrypting mode, on a text
\* with an occurrence.  In the other modes the decrypt pass is not entered
\* and the occurrences stay in the text, down to the document returned.  In
\* the decrypting mode a text with no occurrence is returned by the pass as
\* it is, with no error, no goroutine and no channel.
C18_PoolOnlyWhenDecryptingWithOccurrences ==
    /\ (workers # <<>> \/ submatchesChan.made \/ resultsChan.made) =>
          /\ resolver.config.EncryptionMode = DecryptionEnabled
          /\ OccurrenceCount >= 1
    /\ (resolver # NilResolver /\ resolver.config.EncryptionMode # DecryptionEnabled) =>
          /\ ~PassEntered /\ processedResults = 0 /\ replaced = <<>>
          /\ (TextIsSet /\ OccurrenceCount >= 1) =>
                /\ templateStr = jsonToYAML(in.tmplJSON)
                /\ FindAllStringSubmatch(EncryptedRegexp, 1, templateStr) = Occurrences
          /\ (pc = "done" /\ ret.err = NoError /\ OccurrenceCount >= 1) =>
                ret.doc = yamlToJSON(Executed(jsonToYAML(in.tmplJSON), ctx))
    /\ (PassEntered /\ OccurrenceCount = 0) =>
          /\ workers = <<>> /\ ~submatchesChan.made /\ ~resultsChan.made
          /\ ~InPass /\ ret.err # ErrDecryption /\ ~panicked
          /\ pc = "dataTypes" => templateStr = jsonToYAML(in.tmplJSON)

\* C18's case: the encrypting mode has returned a document that still
\* holds the two protected values of the text.
C18_Witness ==
    /\ resolver # NilResolver /\ resolver.config.EncryptionMode = EncryptionEnabled
    /\ OccurrenceCount = 2 /\ pc = "done" /\ ret.err = NoError
    /\ Positions(ret.doc.of[2], protectedPrefix) # {}

\* C19, as claimed: when every decryption succeeds, the text the decrypt
\* pass returns is the text with every occurrence replaced in place by its
\* plaintext, whatever the order of the results and the concurrency, also
\* when one protected string begins with another.
C19_TextIndependentOfOrder ==
    (OccurrenceCount >= 1 /\ ~SomeDecryptionFails /\ AfterDecryptPass) =>
        templateStr = Substituted(OccurrenceCount)

\* The submatches sent are in the queue, with a goroutine, in the results
\* channel, or received by the caller: none twice, none lost.
SubmatchesAccounted ==
    sent = Len(submatchesChan.buf)
             + Cardinality({w \in DOMAIN workers : workers[w].pc \in {"decrypt", "select"}})
             + Len(resultsChan.buf) + processedResults

\* C20: no channel is closed twice, and a pass that has returned has closed
\* both.  Where no decryption fails: a channel is closed only when all N
\* results have been received, and then no goroutine is in decrypt or holds
\* a result, both channels are empty, every submatch sent is accounted for
\* exactly once, and no goroutine sends on a closed channel.
C20_ClosedOnceAfterAllResults ==
    /\ ~(pc \in {"closeSubmatchesOnError", "closeSubmatches"} /\ submatchesChan.closed)
    /\ ~(pc \in {"closeResultsOnError", "closeResults"} /\ resultsChan.closed)
    /\ (PassReturned /\ OccurrenceCount >= 1) =>
          submatchesChan.closed /\ resultsChan.closed
    /\ resultsChan.closed => submatchesChan.closed
    /\ ~SomeDecryptionFails =>
          /\ ~panicked
          /\ SubmatchesAccounted
          /\ submatchesChan.closed =>
                /\ processedResults = OccurrenceCount
                /\ Len(replaced) = OccurrenceCount
                /\ submatchesChan.buf = <<>> /\ resultsChan.buf = <<>>
                /\ \A w \in DOMAIN workers : workers[w].pc \in {"range", "exit"}

\* C20's case: three results of two goroutines received, both channels
\* closed, the goroutines returned.
C20_Witness ==
    /\ OccurrenceCount = 3 /\ numWorkers = 2 /\ ~SomeDecryptionFails
    /\ submatchesChan.closed /\ resultsChan.closed /\ processedResults = 3
    /\ AllWorkersExited /\ workers # <<>> /\ PassReturned

\* A value of two lines, and the value indent makes of it with a pad of
\* count spaces.
TwoLines == <<"x", "\n", "y">>
Padded(count) == <<"x", "\n">> \o Repeat(<<" ">>, count) \o <<"y">>

\* C21: for the indent invocation the auto-indent pass wrote for S measured
\* spaces under the additional indentation O, the count indent passes to
\* strings.Repeat is S, never negative, also when O > S and the number
\* written is negative; indent does not panic and pads with S spaces.
C21_IndentPadsMeasuredSpaces ==
    \A s \in 0..MaxSpaces, quote \in Quotes, lines \in 1..2 :
        (AutoIndentDone /\ CalledOn(s, quote, lines)) =>
            /\ IndentArguments(templateStr)
                  = {s - resolver.config.AdditionalIndentation}
            /\ \A n \in IndentArguments(templateStr) :
                  /\ RepeatCount(resolver.config, n) = s
                  /\ RepeatCount(resolver.config, n) >= 0
                  /\ indent(resolver.config, n, TwoLines)
                        = [panics |-> FALSE, str |-> Padded(s)]

\* C21's case: one space under the additional indentation 2, a negative
\* number written, and the template executed.
C21_Witness ==
    /\ AutoIndentDone /\ CalledOn(1, <<>>, 1)
    /\ resolver.config.AdditionalIndentation = 2
    /\ IndentArguments(templateStr) = {-1}
    /\ "execute" \in StagesEntered /\ pc = "yamlToJSON"

=============================================================================
